---- MODULE Spec2Model ----
(***************************************************************************)
(* Recycling-rewards kiosk (main.py, database.py).                         *)
(*                                                                         *)
(* The store is the MySQL database behind SessionLocal: the three tables   *)
(* users, products, transactions and their AUTO_INCREMENT counters.  Every *)
(* request handler opens its own database session (get_db), so a handler   *)
(* that writes is two steps here: the step that runs its SELECTs and its   *)
(* Python checks on what they returned, and the step of db.commit(), which *)
(* flushes the pending UPDATE/INSERT/DELETE statements as one database     *)
(* transaction.  Steps of different requests interleave freely; nothing in *)
(* the handlers locks a row (no SELECT ... FOR UPDATE).  A client has one  *)
(* request under way at a time, and the administrator issues the admin     *)
(* requests one at a time.  A response is the value of the handler's check *)
(* operator: the redirect or the page with its error message.              *)
(***************************************************************************)
EXTENDS Integers, Sequences, FiniteSets, TLC

VARIABLES
    started,       \* startup_event has run at least once
    users,         \* rows of table users
    products,      \* rows of table products
    transactions,  \* rows of table transactions (the ledger)
    nextUserId,    \* AUTO_INCREMENT counter of users.id
    nextTxId,      \* AUTO_INCREMENT counter of transactions.id
    session,       \* request.session of each client (the signed cookie)
    inflight       \* per client: the handler that has read and not yet committed

vars == <<started, users, products, transactions, nextUserId, nextTxId,
          session, inflight>>

(***************************************************************************)
(* Bounds of the model.                                                    *)
(***************************************************************************)
MaxUserId == 3
MaxTxId == 2

Clients == {"c1", "c2"}

(***************************************************************************)
(* Form inputs.  A form string is a sequence of characters.  "sup2" stands *)
(* for a character such as the superscript two, for which str.isdigit() is *)
(* true and int() raises ValueError.                                       *)
(***************************************************************************)
AsciiDigits == {"0", "1", "2", "3", "4", "5", "6", "7", "8", "9"}

SID_A == <<"1", "2", "3", "4", "5", "6", "7", "8", "9">>
SID_B == <<"9", "8", "7", "6", "5", "4", "3", "2", "1">>
SID_ZERO == <<"0", "0", "0", "0", "0", "0", "0", "0", "0">>
SID_SHORT == <<"1", "2", "3", "4", "5">>
SID_LONG == <<"1", "2", "3", "4", "5", "6", "7", "8", "9", "0", "1">>
SID_SUP == <<"1", "2", "3", "4", "5", "6", "7", "8", "sup2">>

PW_1234 == <<"1", "2", "3", "4">>
PW_4321 == <<"4", "3", "2", "1">>
PW_SHORT == <<"1", "2", "3">>
PW_LONG == <<"1", "2", "3", "4", "5">>
PW_SUP == <<"1", "2", "sup2", "4">>

\* <<student_id, password>> pairs posted to /api/login and /api/signup
LoginInputs == { <<SID_ZERO, PW_1234>>, <<SID_A, PW_1234>>, <<SID_A, PW_4321>>,
                 <<SID_B, PW_1234>>, <<SID_SHORT, PW_1234>>, <<SID_A, PW_SHORT>>,
                 <<SID_A, PW_SUP>> }
SignupInputs == { <<SID_A, PW_1234>>, <<SID_B, PW_1234>>, <<SID_ZERO, PW_1234>>,
                  <<SID_SHORT, PW_1234>>, <<SID_A, PW_SHORT>>, <<SID_A, PW_SUP>> }
NameInputs == {"Student"}
ProductIdInputs == {1, 3, 9}
StockProductIdInputs == {1, 9}
StockInputs == {-1, 1}
PointsInputs == {-5, 15}
UserIdInputs == 1..MaxUserId

(***************************************************************************)
(* Python values.                                                          *)
(***************************************************************************)
None == [none |-> TRUE]

\* Query.first(): the row, or None
first(rows) == IF rows = {} THEN None ELSE CHOOSE r \in rows : TRUE

max(a, b) == IF a >= b THEN a ELSE b

\* str.isdigit(): non-empty and every character is a digit character
isdigit(s) == Len(s) > 0 /\ \A i \in 1..Len(s) : s[i] \in AsciiDigits \cup {"sup2"}

\* int(s) succeeds (no ValueError)
int_ok(s) == Len(s) > 0 /\ \A i \in 1..Len(s) : s[i] \in AsciiDigits

DigitValue(ch) ==
    CASE ch = "0" -> 0 [] ch = "1" -> 1 [] ch = "2" -> 2 [] ch = "3" -> 3
      [] ch = "4" -> 4 [] ch = "5" -> 5 [] ch = "6" -> 6 [] ch = "7" -> 7
      [] ch = "8" -> 8 [] ch = "9" -> 9

\* int(s): the digits read from the left, each one appended to the value so far
int(s) ==
    LET value[i \in 0..Len(s)] ==
            IF i = 0 THEN 0 ELSE 10 * value[i - 1] + DigitValue(s[i])
    IN value[Len(s)]

\* the largest value of a MySQL INT column, the type of Column(Integer)
INT_MAX == 2147483647

\* the decimal digits of INT_MAX
INT_MAX_DIGITS == <<2, 1, 4, 7, 4, 8, 3, 6, 4, 7>>

\* int(s) <= INT_MAX, decided on the digits (int(s) itself may lie above what
\* the integers of this model hold): s is shorter than INT_MAX, or what stands
\* before its last ten digits is zeros and these ten are not after INT_MAX in
\* the order of the digits
fits_column(s) ==
    \/ Len(s) < Len(INT_MAX_DIGITS)
    \/ LET k == Len(s) - Len(INT_MAX_DIGITS)
       IN /\ \A i \in 1..k : s[i] = "0"
          /\ \A i \in 1..Len(INT_MAX_DIGITS) :
                DigitValue(s[k + i]) > INT_MAX_DIGITS[i] =>
                    \E j \in 1..(i - 1) : DigitValue(s[k + j]) < INT_MAX_DIGITS[j]

validate_password(password) ==
    IF Len(password) = 0 THEN FALSE
    ELSE IF ~isdigit(password) THEN FALSE
    ELSE IF Len(password) # 4 THEN FALSE
    ELSE TRUE

\* validate_student_id without the test of the length
validate_student_id_any_length(student_id) ==
    IF Len(student_id) = 0 THEN FALSE
    ELSE IF ~isdigit(student_id) THEN FALSE
    ELSE TRUE

validate_student_id(student_id) ==
    IF Len(student_id) = 0 THEN FALSE
    ELSE IF ~isdigit(student_id) THEN FALSE
    ELSE IF Len(student_id) < 9 \/ Len(student_id) > 10 THEN FALSE
    ELSE TRUE

(***************************************************************************)
(* Rows and queries.                                                       *)
(***************************************************************************)
User(id, name, student_id, password, points, is_admin) ==
    [id |-> id, name |-> name, student_id |-> student_id, password |-> password,
     points |-> points, is_admin |-> is_admin]

Product(id, name, cost_points, stock_quantity, icon_name) ==
    [id |-> id, name |-> name, cost_points |-> cost_points,
     stock_quantity |-> stock_quantity, icon_name |-> icon_name]

Transaction(id, user_id, item_name, point_change) ==
    [id |-> id, user_id |-> user_id, item_name |-> item_name,
     point_change |-> point_change]

\* the seed with a product that costs nothing
SeedProductsFree ==
    { Product(1, "Water", 0, 0, "water.png"),
      Product(2, "Drink", 25, 0, "drink.png"),
      Product(3, "Soda", 35, 0, "soda.png"),
      Product(4, "Snacks", 30, 0, "Snacks.png"),
      Product(5, "Chocolate", 50, 0, "chocolate.png"),
      Product(6, "Biscuit", 30, 0, "biscuit.png") }

SeedProducts ==
    { Product(1, "Water", 15, 0, "water.png"),
      Product(2, "Drink", 25, 0, "drink.png"),
      Product(3, "Soda", 35, 0, "soda.png"),
      Product(4, "Snacks", 30, 0, "Snacks.png"),
      Product(5, "Chocolate", 50, 0, "chocolate.png"),
      Product(6, "Biscuit", 30, 0, "biscuit.png") }

UserById(id) == first({u \in users : u.id = id})
UserByStudentId(sid) == first({u \in users : u.student_id = sid})
ProductById(id) == first({p \in products : p.id = id})

EmptySession == [user_id |-> 0, is_admin |-> FALSE]

get_user_from_session(c) ==
    LET user_id == session[c].user_id
    IN IF user_id = 0 THEN None ELSE UserById(user_id)

NoReq == [op |-> "none"]

AdminOps == {"delete_user", "delete_all_users", "update_user_points",
             "update_product_stock"}

InFlight(ops) == {c \in Clients : inflight[c].op \in ops}

\* the server is up and the client has no request under way
Idle(c) == started /\ inflight[c] = NoReq

Init ==
    /\ started = FALSE
    /\ users = {}
    /\ products = {}
    /\ transactions = {}
    /\ nextUserId = 1
    /\ nextTxId = 1
    /\ session = [c \in Clients |-> EmptySession]
    /\ inflight = [c \in Clients |-> NoReq]

(***************************************************************************)
(* Startup: init_db seeds the catalog when the products table is empty,    *)
(* startup_event seeds the admin when no user has student_id 0.            *)
(***************************************************************************)
\* init_db without the count: the seed rows are added to whatever the table holds
init_db_products_uncounted == products \cup SeedProducts

init_db_products == IF products = {} THEN SeedProducts ELSE products

startup_event ==
    /\ \A c \in Clients : inflight[c] = NoReq
    /\ products' = init_db_products
    /\ IF UserByStudentId(0) = None
       THEN /\ nextUserId <= MaxUserId
            /\ users' = users \cup {User(nextUserId, "Admin", 0, 1234, 0, TRUE)}
            /\ nextUserId' = nextUserId + 1
       ELSE UNCHANGED <<users, nextUserId>>
    /\ started' = TRUE
    /\ UNCHANGED <<transactions, nextTxId, session, inflight>>

(***************************************************************************)
(* Responses                                                               *)
(***************************************************************************)
R_LOGIN == "303 /login"
R_DASHBOARD == "303 /dashboard"
R_ADMIN == "303 /admin"
R_500 == "500"
R_NOT_FOUND == "303 /dashboard?error=Product not found"
R_OUT_OF_STOCK == "303 /dashboard?error=Product out of stock"
R_INSUFFICIENT == "303 /dashboard?error=Insufficient points"
E_BAD_SID == "login.html: Invalid StudentID. Must be 9-10 digits."
E_BAD_PW == "login.html: Invalid password. Must be exactly 4 digits."
E_NOT_NUMERIC == "login.html: Invalid StudentID. Must be numeric."
E_BAD_LOGIN == "login.html: Invalid StudentID or password."
E_EXISTS == "login.html: StudentID already exists."

(***************************************************************************)
(* POST /api/login                                                         *)
(***************************************************************************)
\* the checks both forms run before they touch the store: "" when they pass
form_error(student_id, password) ==
    IF ~validate_student_id(student_id) THEN E_BAD_SID
    ELSE IF ~validate_password(password) THEN E_BAD_PW
    ELSE IF ~int_ok(student_id) THEN E_NOT_NUMERIC
    ELSE ""

\* filter(User.student_id == int(student_id)).first(): an integer above INT_MAX
\* equals the student_id of no row
UserByStudentIdOf(student_id) ==
    IF fits_column(student_id)
    THEN first(UNION {{u \in users : u.student_id = student_id_int} :
                         student_id_int \in {int(student_id)}})
    ELSE None

\* user.password != password, the stored integer against the posted text: a
\* Python int never equals a str
password_differs_uncast(user, password) == TRUE

\* user.password != int(password)
password_differs(user, password) == user.password # int(password)

\* the response of login
login_response(student_id, password) ==
    LET err == form_error(student_id, password)
        user == IF err = "" THEN UserByStudentIdOf(student_id) ELSE None
    IN IF err # "" THEN err
       ELSE IF user = None THEN E_BAD_LOGIN
       ELSE IF ~int_ok(password) THEN R_500
       ELSE IF password_differs(user, password) THEN E_BAD_LOGIN
       ELSE IF user.is_admin THEN R_ADMIN
       ELSE R_DASHBOARD

login(c, student_id, password) ==
    /\ Idle(c)
    /\ IF login_response(student_id, password) \in {R_ADMIN, R_DASHBOARD}
       THEN LET user == UserByStudentIdOf(student_id)
            IN session' = [session EXCEPT ![c] =
                              [user_id |-> user.id, is_admin |-> user.is_admin]]
       ELSE UNCHANGED session
    /\ UNCHANGED <<started, users, products, transactions, nextUserId, nextTxId,
                   inflight>>

(***************************************************************************)
(* POST /api/signup                                                        *)
(***************************************************************************)
\* signup_check without the SELECT of an existing user
signup_check_no_existing(student_id, password) ==
    LET err == form_error(student_id, password)
    IN IF err # "" THEN err
       ELSE IF ~int_ok(password) THEN R_500
       ELSE ""

\* the response of signup before its INSERT: "" when the INSERT goes ahead
signup_check(student_id, password) ==
    LET err == form_error(student_id, password)
        existing_user == IF err = "" THEN UserByStudentIdOf(student_id) ELSE None
    IN IF err # "" THEN err
       ELSE IF existing_user # None THEN E_EXISTS
       ELSE IF ~int_ok(password) THEN R_500
       ELSE ""

signup(c, name, student_id, password) ==
    /\ Idle(c)
    /\ IF signup_check(student_id, password) # ""
       THEN UNCHANGED inflight
       ELSE IF ~fits_column(student_id)
       THEN \* the INSERT raises DataError (1264, out of range): no row, a 500
            UNCHANGED inflight
       ELSE /\ nextUserId + Cardinality(InFlight({"signup"})) <= MaxUserId
            /\ inflight' = [inflight EXCEPT ![c] =
                   [op |-> "signup", name |-> name, student_id |-> int(student_id),
                    password |-> int(password)]]
    /\ UNCHANGED <<started, users, products, transactions, nextUserId, nextTxId,
                   session>>

\* unique_violation with the UNIQUE constraint not enforced
unique_not_enforced(student_id) == FALSE

\* users.student_id is UNIQUE: the INSERT fails when the value is present
unique_violation(student_id) == UserByStudentId(student_id) # None

\* new_user_id taken as one more than the largest id in the table
new_user_id_after_max ==
    IF users = {} THEN 1
    ELSE (CHOOSE i \in {u.id : u \in users} : \A u \in users : u.id <= i) + 1

\* the id the INSERT gives the new row: AUTO_INCREMENT hands no value out twice
new_user_id == nextUserId

\* db.commit() of signup, then the session is bound to the new row
signup_commit(c) ==
    /\ inflight[c].op = "signup"
    /\ LET r == inflight[c]
       IN IF unique_violation(r.student_id)
          THEN UNCHANGED <<users, session>>
          ELSE /\ users' = users \cup
                     {User(new_user_id, r.name, r.student_id, r.password, 0, FALSE)}
               /\ session' = [session EXCEPT ![c] =
                     [user_id |-> new_user_id, is_admin |-> FALSE]]
    /\ nextUserId' = nextUserId + 1
    /\ inflight' = [inflight EXCEPT ![c] = NoReq]
    /\ UNCHANGED <<started, products, transactions, nextTxId>>

(***************************************************************************)
(* GET /logout                                                             *)
(***************************************************************************)
logout(c) ==
    /\ Idle(c)
    /\ session' = [session EXCEPT ![c] = EmptySession]
    /\ UNCHANGED <<started, users, products, transactions, nextUserId, nextTxId,
                   inflight>>

(***************************************************************************)
(* POST /api/purchase                                                      *)
(***************************************************************************)
\* purchase_check refusing a balance equal to the cost
purchase_check_strict(user, product) ==
    IF user = None THEN "303 /login"
    ELSE IF product = None THEN "303 /dashboard?error=Product not found"
    ELSE IF product.stock_quantity <= 0 THEN "303 /dashboard?error=Product out of stock"
    ELSE IF user.points <= product.cost_points
    THEN "303 /dashboard?error=Insufficient points"
    ELSE ""

\* purchase_check testing the balance before the stock
purchase_check_points_first(user, product) ==
    IF user = None THEN "303 /login"
    ELSE IF product = None THEN "303 /dashboard?error=Product not found"
    ELSE IF user.points < product.cost_points
    THEN "303 /dashboard?error=Insufficient points"
    ELSE IF product.stock_quantity <= 0 THEN "303 /dashboard?error=Product out of stock"
    ELSE ""

\* purchase_check without the test of the balance
purchase_check_no_points_test(user, product) ==
    IF user = None THEN "303 /login"
    ELSE IF product = None THEN "303 /dashboard?error=Product not found"
    ELSE IF product.stock_quantity <= 0 THEN "303 /dashboard?error=Product out of stock"
    ELSE ""

\* the response of purchase on the rows it read: "" when the purchase goes ahead
purchase_check(user, product) ==
    IF user = None THEN R_LOGIN
    ELSE IF product = None THEN R_NOT_FOUND
    ELSE IF product.stock_quantity <= 0 THEN R_OUT_OF_STOCK
    ELSE IF user.points < product.cost_points THEN R_INSUFFICIENT
    ELSE ""

\* purchase taking the unit off the shelf before it tests the balance
purchase_stock_first(c, product_id) ==
    /\ Idle(c)
    /\ LET user == get_user_from_session(c)
           product == ProductById(product_id)
       IN IF purchase_check(user, product) = "303 /dashboard?error=Insufficient points"
          THEN /\ products' = {IF p.id = product_id
                                THEN [p EXCEPT !.stock_quantity = p.stock_quantity - 1]
                                ELSE p : p \in products}
               /\ UNCHANGED inflight
          ELSE IF purchase_check(user, product) # ""
          THEN UNCHANGED <<products, inflight>>
          ELSE /\ nextTxId + Cardinality(InFlight({"purchase"})) <= MaxTxId
               /\ inflight' = [inflight EXCEPT ![c] =
                      [op |-> "purchase", user |-> user, product |-> product]]
               /\ UNCHANGED products
    /\ UNCHANGED <<started, users, transactions, nextUserId, nextTxId, session>>

purchase(c, product_id) ==
    /\ Idle(c)
    /\ LET user == get_user_from_session(c)
           product == ProductById(product_id)
       IN IF purchase_check(user, product) # ""
          THEN UNCHANGED inflight
          ELSE /\ nextTxId + Cardinality(InFlight({"purchase"})) <= MaxTxId
               /\ inflight' = [inflight EXCEPT ![c] =
                      [op |-> "purchase", user |-> user, product |-> product]]
    /\ UNCHANGED <<started, users, products, transactions, nextUserId, nextTxId,
                   session>>

\* the flush of an object loaded earlier: UPDATE ... WHERE id = :id matches no
\* row when the row was deleted meanwhile (StaleDataError, the commit fails)
row_gone(rows, id) == \A r \in rows : r.id # id

\* UPDATE users SET points = :points WHERE id = :id
set_points(rows, id, points) ==
    {IF u.id = id THEN [u EXCEPT !.points = points] ELSE u : u \in rows}

\* UPDATE products SET stock_quantity = :stock_quantity WHERE id = :id
set_stock(rows, id, stock_quantity) ==
    {IF p.id = id THEN [p EXCEPT !.stock_quantity = stock_quantity] ELSE p : p \in rows}

\* user.points -= product.cost_points, on the objects the handler loaded
purchase_points(user, product) == user.points - product.cost_points

\* product.stock_quantity -= 1, on the object the handler loaded
purchase_stock(product) == product.stock_quantity - 1

\* db.commit() of purchase: the two UPDATEs and the INSERT, or none of them
purchase_commit(c) ==
    /\ inflight[c].op = "purchase"
    /\ LET r == inflight[c]
       IN IF row_gone(users, r.user.id) \/ row_gone(products, r.product.id)
          THEN UNCHANGED <<users, products, transactions, nextTxId>>
          ELSE /\ users' = set_points(users, r.user.id, purchase_points(r.user, r.product))
               /\ products' = set_stock(products, r.product.id, purchase_stock(r.product))
               /\ transactions' = transactions \cup
                     {Transaction(nextTxId, r.user.id, r.product.name,
                                  -r.product.cost_points)}
               /\ nextTxId' = nextTxId + 1
    /\ inflight' = [inflight EXCEPT ![c] = NoReq]
    /\ UNCHANGED <<started, nextUserId, session>>

(***************************************************************************)
(* The admin operations                                                    *)
(***************************************************************************)
\* admin_ok letting any logged-in user through
admin_ok_any_user(admin) == admin # None

\* not (not admin or not admin.is_admin)
admin_ok(admin) == admin # None /\ admin.is_admin

\* user_edit_check without the test of the target's admin flag
user_edit_check_any_target(admin, user) ==
    IF ~admin_ok(admin) THEN R_LOGIN
    ELSE IF user # None THEN ""
    ELSE R_ADMIN

\* the response of delete_user and of update_user_points before they write:
\* "" when the handler goes ahead to its commit
user_edit_check(admin, user) ==
    IF ~admin_ok(admin) THEN R_LOGIN
    ELSE IF user # None /\ ~user.is_admin THEN ""
    ELSE R_ADMIN

\* the response of delete_all_users before it writes
delete_all_users_check(admin) ==
    IF ~admin_ok(admin) THEN R_LOGIN ELSE ""

\* the response of update_product_stock before it writes
update_product_stock_check(admin, product) ==
    IF ~admin_ok(admin) THEN R_LOGIN
    ELSE IF product # None THEN ""
    ELSE R_ADMIN

\* ledger_of with the DELETE FROM transactions not filtered by user
ledger_of_all(ids) == {t.id : t \in transactions}

\* ledger_of with the DELETE FROM transactions left out
ledger_of_none(ids) == {}

\* DELETE FROM transactions WHERE user_id = :id, run inside the handler's
\* transaction for each user it deletes: the ids of the rows it removes
ledger_of(ids) == {t.id : t \in {x \in transactions : x.user_id \in ids}}

\* fk_violation with the foreign key not enforced
fk_not_enforced(ids, deleted) == FALSE

\* transactions.user_id REFERENCES users.id: DELETE FROM users fails while a
\* ledger row the handler's own DELETE did not remove still refers to the user
fk_violation(ids, deleted) ==
    \E t \in transactions : t.user_id \in ids /\ t.id \notin deleted

delete_user(c, user_id) ==
    /\ Idle(c)
    /\ IF user_edit_check(get_user_from_session(c), UserById(user_id)) # ""
       THEN UNCHANGED inflight
       ELSE /\ InFlight(AdminOps) = {}
            /\ inflight' = [inflight EXCEPT ![c] =
                   [op |-> "delete_user", ids |-> {user_id},
                    deleted |-> ledger_of({user_id})]]
    /\ UNCHANGED <<started, users, products, transactions, nextUserId, nextTxId,
                   session>>

\* delete_all_users without the filter on is_admin
delete_all_users_with_admins(c) ==
    /\ Idle(c)
    /\ IF delete_all_users_check(get_user_from_session(c)) # ""
       THEN UNCHANGED inflight
       ELSE LET ids == {u.id : u \in users}
            IN /\ InFlight(AdminOps) = {}
               /\ inflight' = [inflight EXCEPT ![c] =
                      [op |-> "delete_all_users", ids |-> ids,
                       deleted |-> ledger_of(ids)]]
    /\ UNCHANGED <<started, users, products, transactions, nextUserId, nextTxId,
                   session>>

delete_all_users(c) ==
    /\ Idle(c)
    /\ IF delete_all_users_check(get_user_from_session(c)) # ""
       THEN UNCHANGED inflight
       ELSE LET ids == {u.id : u \in {x \in users : ~x.is_admin}}
            IN /\ InFlight(AdminOps) = {}
               /\ inflight' = [inflight EXCEPT ![c] =
                      [op |-> "delete_all_users", ids |-> ids,
                       deleted |-> ledger_of(ids)]]
    /\ UNCHANGED <<started, users, products, transactions, nextUserId, nextTxId,
                   session>>

\* db.commit() of delete_user and of delete_all_users: every DELETE, or none
delete_commit(c) ==
    /\ inflight[c].op \in {"delete_user", "delete_all_users"}
    /\ LET r == inflight[c]
       IN IF fk_violation(r.ids, r.deleted)
          THEN UNCHANGED <<users, transactions>>
          ELSE /\ transactions' = {t \in transactions : t.id \notin r.deleted}
               /\ users' = {u \in users : u.id \notin r.ids}
    /\ inflight' = [inflight EXCEPT ![c] = NoReq]
    /\ UNCHANGED <<started, products, nextUserId, nextTxId, session>>

update_user_points(c, user_id, points) ==
    /\ Idle(c)
    /\ IF user_edit_check(get_user_from_session(c), UserById(user_id)) # ""
       THEN UNCHANGED inflight
       ELSE /\ InFlight(AdminOps) = {}
            /\ inflight' = [inflight EXCEPT ![c] =
                   [op |-> "update_user_points", user |-> UserById(user_id),
                    points |-> max(0, points)]]
    /\ UNCHANGED <<started, users, products, transactions, nextUserId, nextTxId,
                   session>>

\* db.commit() of update_user_points; an attribute set to the value it was
\* loaded with emits no UPDATE
update_user_points_commit(c) ==
    /\ inflight[c].op = "update_user_points"
    /\ LET r == inflight[c]
       IN IF r.points = r.user.points \/ row_gone(users, r.user.id)
          THEN UNCHANGED users
          ELSE users' = set_points(users, r.user.id, r.points)
    /\ inflight' = [inflight EXCEPT ![c] = NoReq]
    /\ UNCHANGED <<started, products, transactions, nextUserId, nextTxId, session>>

\* POST /admin/update-points with points above INT_MAX (2147483648 and more,
\* values the integers of this model do not hold), where the handler's checks
\* pass: max(0, points) is points, the UPDATE of db.commit() raises DataError
\* (1264, out of range for column 'points'), the response is a 500 and the
\* session's rollback leaves the row as it was
update_user_points_out_of_range(c, user_id) ==
    /\ Idle(c)
    /\ user_edit_check(get_user_from_session(c), UserById(user_id)) = ""
    /\ UNCHANGED vars

update_product_stock(c, product_id, stock_quantity) ==
    /\ Idle(c)
    /\ IF update_product_stock_check(get_user_from_session(c),
                                     ProductById(product_id)) # ""
       THEN UNCHANGED inflight
       ELSE /\ InFlight(AdminOps) = {}
            /\ inflight' = [inflight EXCEPT ![c] =
                   [op |-> "update_product_stock", product |-> ProductById(product_id),
                    stock_quantity |-> max(0, stock_quantity)]]
    /\ UNCHANGED <<started, users, products, transactions, nextUserId, nextTxId,
                   session>>

\* db.commit() of update_product_stock
update_product_stock_commit(c) ==
    /\ inflight[c].op = "update_product_stock"
    /\ LET r == inflight[c]
       IN IF r.stock_quantity = r.product.stock_quantity
             \/ row_gone(products, r.product.id)
          THEN UNCHANGED products
          ELSE products' = set_stock(products, r.product.id, r.stock_quantity)
    /\ inflight' = [inflight EXCEPT ![c] = NoReq]
    /\ UNCHANGED <<started, users, transactions, nextUserId, nextTxId, session>>

(***************************************************************************)
(* The specifications                                                      *)
(***************************************************************************)
\* the client the administrator sits at: the admin's identifier is typed there
\* and on no other client
AdminConsole == "c1"

\* the <<student_id, password>> pairs a client posts to /api/login
LoginInputsOf(c) ==
    IF c = AdminConsole THEN LoginInputs
    ELSE {in \in LoginInputs : in[1] # SID_ZERO}

SessionInvoke(c) ==
    \/ \E in \in LoginInputsOf(c) : login(c, in[1], in[2])
    \/ \E n \in NameInputs, in \in SignupInputs : signup(c, n, in[1], in[2])
    \/ logout(c)

PurchaseInvoke(c) == \E p \in ProductIdInputs : purchase(c, p)

\* POST /admin/update-stock with stock_quantity above INT_MAX, where the
\* handler's checks pass: as update_user_points_out_of_range
update_product_stock_out_of_range(c, product_id) ==
    /\ Idle(c)
    /\ update_product_stock_check(get_user_from_session(c),
                                  ProductById(product_id)) = ""
    /\ UNCHANGED vars

AdminInvoke(c) ==
    \/ \E u \in UserIdInputs : delete_user(c, u)
    \/ delete_all_users(c)
    \/ \E u \in UserIdInputs, pts \in PointsInputs : update_user_points(c, u, pts)
    \/ \E p \in StockProductIdInputs, q \in StockInputs : update_product_stock(c, p, q)
    \/ \E u \in UserIdInputs : update_user_points_out_of_range(c, u)
    \/ \E p \in StockProductIdInputs : update_product_stock_out_of_range(c, p)

\* db.commit() of a handler that went ahead
Commit(c) ==
    \/ signup_commit(c)
    \/ purchase_commit(c)
    \/ delete_commit(c)
    \/ update_user_points_commit(c)
    \/ update_product_stock_commit(c)

\* requests of the clients overlap freely
Next ==
    \/ startup_event
    \/ \E c \in Clients : SessionInvoke(c)
    \/ \E c \in Clients : PurchaseInvoke(c)
    \/ \E c \in Clients : AdminInvoke(c)
    \/ \E c \in Clients : Commit(c)

Spec == Init /\ [][Next]_vars

Quiet == InFlight({"signup", "purchase"} \cup AdminOps) = {}

\* each request runs on its own: none starts while another is under way
NextSeq ==
    \/ startup_event
    \/ \E c \in Clients : Quiet /\ SessionInvoke(c)
    \/ \E c \in Clients : Quiet /\ PurchaseInvoke(c)
    \/ \E c \in Clients : Quiet /\ AdminInvoke(c)
    \/ \E c \in Clients : Commit(c)

SpecSeq == Init /\ [][NextSeq]_vars

\* purchases overlap with each other (and with logins, signups and logouts),
\* but no admin request runs while a purchase is under way
NextPurchaseRace ==
    \/ startup_event
    \/ \E c \in Clients : SessionInvoke(c)
    \/ \E c \in Clients : InFlight(AdminOps) = {} /\ PurchaseInvoke(c)
    \/ \E c \in Clients : InFlight({"purchase"}) = {} /\ AdminInvoke(c)
    \/ \E c \in Clients : Commit(c)

SpecPurchaseRace == Init /\ [][NextPurchaseRace]_vars

\* signups overlap with each other (and with logins and logouts); a purchase or
\* an admin request runs on its own
NextSignupRace ==
    \/ startup_event
    \/ \E c \in Clients : InFlight({"purchase"} \cup AdminOps) = {} /\ SessionInvoke(c)
    \/ \E c \in Clients : Quiet /\ PurchaseInvoke(c)
    \/ \E c \in Clients : Quiet /\ AdminInvoke(c)
    \/ \E c \in Clients : Commit(c)

SpecSignupRace == Init /\ [][NextSignupRace]_vars

(***************************************************************************)
(* The claims                                                              *)
(***************************************************************************)
resolve(c) == get_user_from_session(c)

\* C1: in every reachable state, whatever the requests and however they
\* overlap, every user's points and every product's stock_quantity are >= 0.
C1_NonNegative ==
    /\ \A u \in users : u.points >= 0
    /\ \A p \in products : p.stock_quantity >= 0

\* a purchase has brought its buyer's balance and its product's stock to 0
C1_Witness ==
    \E t \in transactions : \E u \in users : \E p \in products :
        /\ u.id = t.user_id /\ u.points = 0
        /\ p.name = t.item_name /\ p.stock_quantity = 0

\* C9: in every reachable state every ledger row's user_id is the id of a
\* row of users: no deletion, and no purchase racing with a deletion, leaves
\* an orphaned ledger row.
C9_NoOrphanLedgerRow ==
    \A t \in transactions : \E u \in users : u.id = t.user_id

\* a user who owned a ledger row was deleted with it while another purchase
\* of that user was under way
C9_Witness ==
    \E c \in Clients :
        /\ inflight[c].op = "purchase"
        /\ row_gone(users, inflight[c].user.id)
        /\ nextTxId > 1
        /\ transactions = {}

\* C10: a session is bound only by a login whose identifier exists and whose
\* credential equals the stored one, or by a signup, to the row it created;
\* and while the session keeps its binding, a step that writes users leaves it
\* resolving to the same user or to absent, and once absent it stays absent:
\* never to a different user (a step that writes no user does not change what
\* the binding resolves to).
C10_SessionBinding ==
    [][\A c \in Clients :
        LET k == session[c].user_id
            k2 == session'[c].user_id
        IN /\ (k2 # k /\ k2 # 0) =>
                \/ \E in \in LoginInputs :
                      /\ login(c, in[1], in[2])
                      /\ int_ok(in[1]) /\ int_ok(in[2])
                      /\ \E u \in users : /\ u.id = k2
                                          /\ u.student_id = int(in[1])
                                          /\ u.password = int(in[2])
                \/ /\ signup_commit(c)
                   /\ row_gone(users, k2)
                   /\ \E u \in users' : /\ u.id = k2
                                        /\ u.student_id = inflight[c].student_id
                                        /\ u.password = inflight[c].password
           /\ (k2 = k /\ k # 0 /\ users' # users) =>
                \/ resolve(c)' = None
                \/ /\ resolve(c) # None
                   /\ resolve(c)'.id = resolve(c).id
                   /\ resolve(c)'.student_id = resolve(c).student_id
                   /\ resolve(c)'.is_admin = resolve(c).is_admin
       ]_vars

\* a session still holds the id of a deleted user, and a user signed up later
C10_Witness ==
    \E c \in Clients :
        /\ session[c].user_id # 0
        /\ resolve(c) = None
        /\ \E u \in users : u.id > session[c].user_id

\* the conditions under which a purchase attempt succeeds
CanBuy(user, product) ==
    /\ user # None
    /\ product # None
    /\ product.stock_quantity > 0
    /\ user.points >= product.cost_points

RECURSIVE SumPointChange(_)
SumPointChange(rows) ==
    IF rows = {} THEN 0
    ELSE LET t == CHOOSE x \in rows : TRUE
         IN t.point_change + SumPointChange(rows \ {t})

\* the sum of the point changes of a user's ledger rows
LedgerSum(user_id) == SumPointChange({t \in transactions : t.user_id = user_id})

\* C2: purchases by distinct users, overlapping in time, never sell more
\* units than the product has: a purchase by a user who has bought nothing yet
\* commits only while the product's stock is still at least 1, and leaves it
\* at least 0.
C2_OneSalePerUnit ==
    [][\A c \in Clients :
        (/\ purchase_commit(c)
         /\ nextTxId' # nextTxId
         /\ \A t \in transactions : t.user_id # inflight[c].user.id)
        => /\ ProductById(inflight[c].product.id).stock_quantity >= 1
           /\ \A q \in products' : q.stock_quantity >= 0
       ]_vars

\* C3: with no admin request in between, every purchase that commits lowers
\* the buyer's balance by what the ledger records for it: balance minus ledger
\* sum is the same before and after, for every user.
C3_BalanceMatchesLedger ==
    [][\A c \in Clients :
        purchase_commit(c) =>
            \A u \in users : \A v \in users' :
                v.id = u.id =>
                    v.points - u.points = LedgerSum(u.id)' - LedgerSum(u.id)
       ]_vars

\* C4: a purchase attempt run on its own goes ahead exactly when the product
\* exists, has stock and the balance covers the cost; then its commit lowers the
\* buyer's points by the cost, and otherwise the attempt ends with every
\* user's points as they were.
C4_PointsAfterAttempt ==
    \A c \in Clients :
        /\ \A p \in ProductIdInputs :
              (Quiet /\ Idle(c) /\ ~CanBuy(resolve(c), ProductById(p))) =>
                  /\ ENABLED purchase(c, p)
                  /\ ~ENABLED (purchase(c, p) /\ (users' # users \/ inflight' # inflight))
        /\ \A p \in ProductIdInputs :
              (Quiet /\ Idle(c) /\ CanBuy(resolve(c), ProductById(p))) =>
                  ~ENABLED (purchase(c, p) /\ inflight'[c].op # "purchase")
        /\ inflight[c].op = "purchase" =>
              /\ CanBuy(resolve(c), ProductById(inflight[c].product.id))
              /\ ENABLED purchase_commit(c)
              /\ ~ENABLED (/\ purchase_commit(c)
                           /\ ~(/\ resolve(c)' # None
                                /\ resolve(c)'.points =
                                      resolve(c).points
                                      - ProductById(inflight[c].product.id).cost_points
                                /\ nextTxId' = nextTxId + 1))

\* a buyer has bought, and can no longer afford a product that is in stock
C4_Witness ==
    \E c \in Clients : \E t \in transactions : \E p \in products :
        /\ resolve(c) # None
        /\ resolve(c).id = t.user_id
        /\ p.stock_quantity > 0
        /\ resolve(c).points < p.cost_points

\* C5: a purchase that commits lowers the buyer's points by the product's
\* cost, lowers the product's stock by exactly 1 and appends exactly one ledger
\* row (the buyer's id, the product's name, minus the cost); every other user,
\* product and ledger row stays as it was.
C5_PurchaseEffect ==
    [][\A c \in Clients :
        (purchase_commit(c) /\ nextTxId' # nextTxId) =>
            LET u == UserById(inflight[c].user.id)
                p == ProductById(inflight[c].product.id)
                t == Transaction(nextTxId, u.id, p.name, -p.cost_points)
            IN /\ users' = (users \ {u})
                            \cup {[u EXCEPT !.points = u.points - p.cost_points]}
               /\ products' = (products \ {p})
                            \cup {[p EXCEPT !.stock_quantity = p.stock_quantity - 1]}
               /\ t \notin transactions
               /\ transactions' = transactions \cup {t}
       ]_vars

DashboardErrors == {R_NOT_FOUND, R_OUT_OF_STOCK, R_INSUFFICIENT}

\* C6: a purchase attempt of a logged-in user that is rejected (product not
\* found, out of stock, insufficient points) changes nothing, in the store or
\* elsewhere, and answers with a redirect to the dashboard carrying an error.
C6_RejectedPurchase ==
    \A c \in Clients : \A p \in ProductIdInputs :
        (Idle(c) /\ resolve(c) # None /\ ~CanBuy(resolve(c), ProductById(p))) =>
            /\ purchase_check(resolve(c), ProductById(p)) \in DashboardErrors
            /\ ENABLED purchase(c, p)
            /\ ~ENABLED (purchase(c, p) /\ vars' # vars)

\* a buyer's second attempt meets an empty shelf: the product was sold out
C6_Witness ==
    \E c \in Clients : \E t \in transactions : \E p \in products :
        /\ Idle(c)
        /\ resolve(c) # None
        /\ resolve(c).id = t.user_id
        /\ p.name = t.item_name
        /\ p.stock_quantity = 0

\* C7: the reason of a rejection is not-found when the product is absent,
\* otherwise out-of-stock when the stock is 0 whatever the balance, and
\* insufficient-points only for a product that exists and is in stock.
C7_RejectionPrecedence ==
    \A c \in Clients : \A p \in ProductIdInputs :
        LET user == resolve(c)
            product == ProductById(p)
            resp == purchase_check(user, product)
        IN user # None =>
            /\ product = None => resp = R_NOT_FOUND
            /\ (product # None /\ product.stock_quantity <= 0) => resp = R_OUT_OF_STOCK
            /\ resp = R_INSUFFICIENT =>
                  /\ product # None
                  /\ product.stock_quantity > 0
                  /\ user.points < product.cost_points
            /\ (product # None /\ product.stock_quantity > 0
                /\ user.points < product.cost_points) => resp = R_INSUFFICIENT

\* after a sale, a logged-in user with too few points faces a product with no
\* stock (both reasons apply) and another with stock (only the balance fails)
C7_Witness ==
    \E c \in Clients : \E p, q \in products :
        /\ resolve(c) # None
        /\ nextTxId > 1
        /\ p.stock_quantity = 0 /\ resolve(c).points < p.cost_points
        /\ q.stock_quantity > 0 /\ resolve(c).points < q.cost_points

\* C8: an admin operation started on a session that is anonymous, bound to
\* a deleted user or bound to a non-admin, and a purchase started on a session
\* that is anonymous or bound to a deleted user, answers with the redirect to
\* login and changes nothing.
C8_ProtectedMutations ==
    \A c \in Clients :
        /\ (Idle(c) /\ ~(resolve(c) # None /\ resolve(c).is_admin)) =>
              /\ \A u \in UserIdInputs :
                    /\ user_edit_check(resolve(c), UserById(u)) = R_LOGIN
                    /\ ENABLED delete_user(c, u)
                    /\ ~ENABLED (delete_user(c, u) /\ vars' # vars)
                    /\ \A pts \in PointsInputs :
                          /\ ENABLED update_user_points(c, u, pts)
                          /\ ~ENABLED (update_user_points(c, u, pts) /\ vars' # vars)
              /\ delete_all_users_check(resolve(c)) = R_LOGIN
              /\ ENABLED delete_all_users(c)
              /\ ~ENABLED (delete_all_users(c) /\ vars' # vars)
              /\ \A p \in StockProductIdInputs : \A q \in StockInputs :
                    /\ update_product_stock_check(resolve(c), ProductById(p)) = R_LOGIN
                    /\ ENABLED update_product_stock(c, p, q)
                    /\ ~ENABLED (update_product_stock(c, p, q) /\ vars' # vars)
        /\ (Idle(c) /\ resolve(c) = None) =>
              \A p \in ProductIdInputs :
                  /\ purchase_check(resolve(c), ProductById(p)) = R_LOGIN
                  /\ ENABLED purchase(c, p)
                  /\ ~ENABLED (purchase(c, p) /\ vars' # vars)

\* one session is bound to a deleted user and the other to a non-admin user
\* with points, while a product is in stock
C8_Witness ==
    \E c, d \in Clients :
        /\ Idle(c) /\ Idle(d)
        /\ session[c].user_id # 0 /\ resolve(c) = None
        /\ resolve(d) # None /\ ~resolve(d).is_admin /\ resolve(d).points > 0
        /\ \E p \in products : p.stock_quantity > 0

\* the value the claims say an admin edit stores for an input
Clamp(n) == IF n < 0 THEN 0 ELSE n

\* the client has an admin session and no request is under way
AdminCaller(c) ==
    /\ Quiet
    /\ Idle(c)
    /\ resolve(c) # None
    /\ resolve(c).is_admin

\* the inputs that fit the INT columns, negatives included: for an admin
\* caller, update-points on a non-admin user stores max(0, points) and
\* update-stock on an existing product stores max(0, stock_quantity), and
\* changes no other user, product or ledger row; on an id that does not exist
\* they change nothing
ClampedUpdateInRange ==
    \A c \in Clients :
        /\ AdminCaller(c) =>
              /\ \A u \in UserIdInputs : \A pts \in PointsInputs :
                    /\ ENABLED update_user_points(c, u, pts)
                    /\ (UserById(u) # None /\ ~UserById(u).is_admin) =>
                          ~ENABLED (/\ update_user_points(c, u, pts)
                                    /\ ~(/\ inflight'[c].op = "update_user_points"
                                         /\ inflight'[c].user = UserById(u)
                                         /\ inflight'[c].points = Clamp(pts)))
                    /\ UserById(u) = None =>
                          ~ENABLED (update_user_points(c, u, pts) /\ vars' # vars)
              /\ \A p \in StockProductIdInputs : \A q \in StockInputs :
                    /\ ENABLED update_product_stock(c, p, q)
                    /\ ProductById(p) # None =>
                          ~ENABLED (/\ update_product_stock(c, p, q)
                                    /\ ~(/\ inflight'[c].op = "update_product_stock"
                                         /\ inflight'[c].product = ProductById(p)
                                         /\ inflight'[c].stock_quantity = Clamp(q)))
                    /\ ProductById(p) = None =>
                          ~ENABLED (update_product_stock(c, p, q) /\ vars' # vars)
        /\ inflight[c].op = "update_user_points" =>
              /\ ENABLED update_user_points_commit(c)
              /\ ~ENABLED (/\ update_user_points_commit(c)
                           /\ ~(/\ users' = (users \ {inflight[c].user}) \cup
                                      {[inflight[c].user EXCEPT
                                           !.points = inflight[c].points]}
                                /\ products' = products
                                /\ transactions' = transactions))
        /\ inflight[c].op = "update_product_stock" =>
              /\ ENABLED update_product_stock_commit(c)
              /\ ~ENABLED (/\ update_product_stock_commit(c)
                           /\ ~(/\ products' = (products \ {inflight[c].product}) \cup
                                      {[inflight[c].product EXCEPT
                                           !.stock_quantity = inflight[c].stock_quantity]}
                                /\ users' = users
                                /\ transactions' = transactions))

\* C11: for an admin caller, update-points on a non-admin user stores
\* max(0, points) and update-stock on an existing product stores
\* max(0, stock_quantity), for every integer input: the negatives and the
\* values that fit the columns as in ClampedUpdateInRange, and a value above
\* INT_MAX, which is above every stored value, changes the row it is posted
\* for.
C11_ClampedUpdate ==
    /\ ClampedUpdateInRange
    /\ \A c \in Clients :
          AdminCaller(c) =>
              /\ \A u \in UserIdInputs :
                    (UserById(u) # None /\ ~UserById(u).is_admin) =>
                        ENABLED (/\ update_user_points_out_of_range(c, u)
                                 /\ UserById(u)' # UserById(u))
              /\ \A p \in StockProductIdInputs :
                    ProductById(p) # None =>
                        ENABLED (/\ update_product_stock_out_of_range(c, p)
                                 /\ ProductById(p)' # ProductById(p))

\* C12: update-points aimed at an admin account is refused whatever the
\* points value and whoever calls: the request changes no user, product or
\* ledger row (nor anything else), and an admin caller is sent back to /admin.
C12_AdminTargetRefused ==
    \A c \in Clients : \A u \in UserIdInputs : \A pts \in PointsInputs :
        (Idle(c) /\ UserById(u) # None /\ UserById(u).is_admin) =>
            /\ ENABLED update_user_points(c, u, pts)
            /\ ~ENABLED (update_user_points(c, u, pts) /\ vars' # vars)
            /\ (resolve(c) # None /\ resolve(c).is_admin) =>
                  user_edit_check(resolve(c), UserById(u)) = R_ADMIN

\* an admin session is idle while a non-admin user holds points an admin set
C12_Witness ==
    \E c \in Clients :
        /\ Idle(c)
        /\ resolve(c) # None
        /\ resolve(c).is_admin
        /\ \E u \in users : ~u.is_admin /\ u.points > 0

\* C13: delete-user by an admin on a non-admin target goes ahead and its
\* commit removes exactly that user and exactly that user's ledger rows: every
\* other user, every other ledger row and every product stays as it was; on
\* an admin target or a missing id the request changes nothing.
C13_DeleteUserEffect ==
    \A c \in Clients :
        /\ AdminCaller(c) =>
              \A u \in UserIdInputs :
                  /\ ENABLED delete_user(c, u)
                  /\ (UserById(u) # None /\ ~UserById(u).is_admin) =>
                        ~ENABLED (/\ delete_user(c, u)
                                  /\ ~(/\ inflight'[c].op = "delete_user"
                                       /\ inflight'[c].ids = {u}))
                  /\ (UserById(u) = None \/ UserById(u).is_admin) =>
                        /\ user_edit_check(resolve(c), UserById(u)) = R_ADMIN
                        /\ ~ENABLED (delete_user(c, u) /\ vars' # vars)
        /\ inflight[c].op = "delete_user" =>
              /\ ENABLED delete_commit(c)
              /\ ~ENABLED (/\ delete_commit(c)
                           /\ ~(/\ users' = {x \in users : x.id \notin inflight[c].ids}
                                /\ users' # users
                                /\ transactions' =
                                      {t \in transactions :
                                          t.user_id \notin inflight[c].ids}
                                /\ products' = products))

\* an admin is deleting a user who owns a ledger row while another non-admin
\* user exists
C13_Witness ==
    \E c \in Clients :
        /\ inflight[c].op = "delete_user"
        /\ inflight[c].deleted # {}
        /\ \E u \in users : ~u.is_admin /\ u.id \notin inflight[c].ids

\* C14: delete-all-users by an admin goes ahead, and after its commit no
\* non-admin user and no ledger row of a non-admin user remains, while every
\* admin account and every product is as before; so once the server has
\* started, every state holds an admin account.
C14_DeleteAllKeepsAdmins ==
    /\ started => \E u \in users : u.is_admin
    /\ \A c \in Clients :
          /\ AdminCaller(c) =>
                /\ ENABLED delete_all_users(c)
                /\ ~ENABLED (delete_all_users(c)
                             /\ inflight'[c].op # "delete_all_users")
          /\ inflight[c].op = "delete_all_users" =>
                /\ ENABLED delete_commit(c)
                /\ ~ENABLED (/\ delete_commit(c)
                             /\ ~(/\ users' = {u \in users : u.is_admin}
                                  /\ transactions' =
                                        {t \in transactions :
                                            \E u \in users :
                                                u.is_admin /\ u.id = t.user_id}
                                  /\ products' = products))

\* delete-all-users is about to remove two users, one of whom owns a ledger
\* row
C14_Witness ==
    \E c \in Clients :
        /\ inflight[c].op = "delete_all_users"
        /\ Cardinality(inflight[c].ids) = 2
        /\ inflight[c].deleted # {}

\* a string of ASCII digits only
AllDigits(s) == \A i \in 1..Len(s) : s[i] \in AsciiDigits

\* not a numeric string of 9-10 digits
MalformedIdentifier(s) == ~(Len(s) \in 9..10 /\ AllDigits(s))

\* not exactly 4 digits
MalformedCredential(s) == ~(Len(s) = 4 /\ AllDigits(s))

\* the forms a malformed identifier or credential is posted in
MalformedInputs ==
    {in \in { <<SID_SHORT, PW_1234>>, <<SID_LONG, PW_1234>>, <<SID_SUP, PW_1234>>,
              <<SID_A, PW_SHORT>>, <<SID_A, PW_LONG>>, <<SID_A, PW_SUP>>,
              <<SID_A, PW_1234>> } :
        MalformedIdentifier(in[1]) \/ MalformedCredential(in[2])}

\* C15: a signup or a login with a malformed identifier (not 9-10 digits) or
\* a malformed credential (not exactly 4 digits) is answered without creating
\* or changing any record and without binding or changing the session: the
\* state after it is the state before it, however often it is repeated. Stated
\* for a request that arrives while no other request is under way.
C15_MalformedRejected ==
    \A c \in Clients : \A in \in MalformedInputs :
        (Quiet /\ Idle(c)) =>
            /\ login_response(in[1], in[2]) \notin {R_ADMIN, R_DASHBOARD}
            /\ ~ENABLED (login(c, in[1], in[2]) /\ vars' # vars)
            /\ signup_check(in[1], in[2]) # ""
            /\ \A n \in NameInputs :
                  ~ENABLED (signup(c, n, in[1], in[2]) /\ vars' # vars)

\* an anonymous client is idle while the user with identifier 123456789
\* exists and is logged in on the other client
C15_Witness ==
    \E c, d \in Clients :
        /\ Idle(c)
        /\ session[c].user_id = 0
        /\ resolve(d) # None
        /\ resolve(d).student_id = int(SID_A)

\* the signups of SignupInputs that pass the checks of the form, each with the
\* integer of its identifier
WellFormedSignups ==
    {<<in[1], in[2], int(in[1])>> :
        in \in {x \in SignupInputs : form_error(x[1], x[2]) = ""}}

\* C16: no two users share a student_id, in any reachable state; a signup
\* with an identifier that is present is answered "already exists" and changes
\* nothing; and the commit of a signup either adds exactly one user, non-admin
\* with 0 points, under an identifier no user had, or, when the identifier has
\* been taken meanwhile by an overlapping signup, changes no user.
C16_UniqueStudentId ==
    /\ \A u, v \in users : u.student_id = v.student_id => u = v
    /\ \A c \in Clients :
          /\ Idle(c) =>
                \A n \in NameInputs : \A in \in WellFormedSignups :
                    (\E u \in users : u.student_id = in[3]) =>
                        /\ signup_check(in[1], in[2]) = E_EXISTS
                        /\ ~ENABLED (signup(c, n, in[1], in[2]) /\ vars' # vars)
          /\ inflight[c].op = "signup" =>
                /\ ~ENABLED
                     (/\ signup_commit(c)
                      /\ ~(IF \E u \in users : u.student_id = inflight[c].student_id
                           THEN users' = users
                           ELSE \E u \in users' :
                                   /\ users' = users \cup {u}
                                   /\ \A v \in users : v.id # u.id
                                   /\ u.student_id = inflight[c].student_id
                                   /\ u.password = inflight[c].password
                                   /\ u.name = inflight[c].name
                                   /\ u.points = 0
                                   /\ ~u.is_admin))

\* two signups with the same identifier have both passed the handler's check
\* and await their commit
C16_Witness ==
    \E c, d \in Clients :
        /\ c # d
        /\ inflight[c].op = "signup"
        /\ inflight[d].op = "signup"
        /\ inflight[c].student_id = inflight[d].student_id

SID_ZERO10 == <<"0", "0", "0", "0", "0", "0", "0", "0", "0", "0">>

\* the identifier strings that pass validation and whose value is 0
ZeroIdentifiers == {SID_ZERO, SID_ZERO10}

\* C17: in every state after startup exactly one user is an admin, it is the
\* seeded account (the first row, named Admin, student_id 0) and no other user
\* has student_id 0; and a signup whose identifier passes validation and has
\* the value 0, "000000000" included, is answered "already exists" and changes
\* nothing, whenever it arrives while no other request is under way.
C17_AdminReserved ==
    /\ started =>
          /\ \E a \in users :
                /\ a.id = 1 /\ a.name = "Admin" /\ a.student_id = 0 /\ a.is_admin
                /\ \A u \in users : (u.is_admin \/ u.student_id = 0) => u = a
    /\ \A c \in Clients :
          (Quiet /\ Idle(c)) =>
              \A n \in NameInputs : \A sid \in ZeroIdentifiers :
                  /\ validate_student_id(sid)
                  /\ int(sid) = 0
                  /\ signup_check(sid, PW_1234) = E_EXISTS
                  /\ ~ENABLED (signup(c, n, sid, PW_1234) /\ vars' # vars)

\* two users have signed up beside the admin, and a client is anonymous
C17_Witness ==
    /\ Cardinality(users) = 3
    /\ \E c \in Clients : Idle(c) /\ session[c].user_id = 0

SID_BIG == <<"9", "8", "7", "6", "5", "4", "3", "2", "1", "0">>
SID_LEAD == <<"0", "1", "2", "3", "4", "5", "6", "7", "8", "9">>

\* <<student_id, password>> pairs posted to /api/signup and later to /api/login
RoundTripInputs ==
    { <<SID_A, PW_1234>>, <<SID_A, PW_4321>>, <<SID_B, PW_1234>>,
      <<SID_LEAD, PW_1234>>, <<SID_BIG, PW_1234>>, <<SID_A, PW_SUP>> }

\* those of them that pass the checks of both forms and fit the column, each
\* with the integers of its two strings
RoundTripStored ==
    {<<in[1], in[2], int(in[1]), int(in[2])>> :
        in \in {x \in RoundTripInputs :
                  form_error(x[1], x[2]) = "" /\ int_ok(x[2]) /\ fits_column(x[1])}}

\* passwords posted to /api/login
CredentialInputs == {PW_1234, PW_4321}

\* C19: signup and login round-trip. A signup that goes ahead with a pair of
\* strings has passed the checks login runs and records the integers of the
\* two strings; its commit, when it adds a user, adds a non-admin with exactly
\* these two integers and binds the session to it; and in every state where a
\* non-admin user holds the integers of a pair that passes the checks, a login
\* with that pair answers with the dashboard and binds the session to that
\* user as a non-admin, while a login with the same identifier and a
\* credential of another numeric value is refused and binds no session.
\* Stated for requests that arrive while no other request is under way.
C19_RoundTrip ==
    \A c \in Clients :
        /\ (Quiet /\ Idle(c)) =>
              \A n \in NameInputs : \A in \in RoundTripInputs :
                  \/ signup_check(in[1], in[2]) # ""
                  \/ ~ENABLED (/\ signup(c, n, in[1], in[2])
                               /\ inflight'[c] # inflight[c]
                               /\ ~(\E st \in RoundTripStored :
                                       /\ st[1] = in[1] /\ st[2] = in[2]
                                       /\ inflight'[c].student_id = st[3]
                                       /\ inflight'[c].password = st[4]))
        /\ inflight[c].op = "signup" =>
              ~ENABLED (/\ signup_commit(c)
                        /\ users' # users
                        /\ ~(\E u \in users' \ users :
                                /\ u.student_id = inflight[c].student_id
                                /\ u.password = inflight[c].password
                                /\ ~u.is_admin
                                /\ users' = users \cup {u}
                                /\ session'[c] = [user_id |-> u.id,
                                                  is_admin |-> FALSE]))
        /\ (Quiet /\ Idle(c)) =>
              \A in \in RoundTripStored : \A u \in users :
                  (/\ ~u.is_admin
                   /\ u.student_id = in[3]
                   /\ u.password = in[4]) =>
                      /\ login_response(in[1], in[2]) = R_DASHBOARD
                      /\ ~ENABLED (/\ login(c, in[1], in[2])
                                   /\ session'[c] # [user_id |-> u.id,
                                                     is_admin |-> FALSE])
                      /\ \A pw \in CredentialInputs :
                            int(pw) # u.password =>
                                /\ login_response(in[1], pw) = E_BAD_LOGIN
                                /\ ~ENABLED (/\ login(c, in[1], pw)
                                             /\ session'[c] # session[c])

\* the user who signed up with 123456789 and 1234 has been given 15 points
\* since, and a client with no session is idle: a later login
C19_Witness ==
    \E c \in Clients : \E u \in users :
        /\ Idle(c)
        /\ session[c].user_id = 0
        /\ u.student_id = int(SID_A)
        /\ u.password = int(PW_1234)
        /\ u.points = 15

\* C20: startup is idempotent. After the first startup the product table is
\* not empty and a user with student_id 0 exists, in every state; there the
\* startup hook can run again and changes no user, product, ledger row, id
\* counter or session: no product and no second admin is added and no stock,
\* balance or credential is touched (the hook runs while no request is under
\* way). It writes products only when the table is empty (then the six seed
\* rows) and a user only when none has student_id 0 (then the one admin row).
C20_StartupIdempotent ==
    /\ started =>
          /\ products # {}
          /\ \E u \in users : u.student_id = 0
    /\ (Quiet /\ products # {} /\ (\E u \in users : u.student_id = 0)) =>
          /\ ENABLED startup_event
          /\ ~ENABLED (/\ startup_event
                       /\ <<users, products, transactions, nextUserId, nextTxId,
                            session, inflight>>' #
                          <<users, products, transactions, nextUserId, nextTxId,
                            session, inflight>>)
    /\ Quiet =>
          /\ ~ENABLED (/\ startup_event
                       /\ products' # products
                       /\ ~(products = {} /\ products' = SeedProducts))
          /\ ~ENABLED (/\ startup_event
                       /\ users' # users
                       /\ ~(/\ \A u \in users : u.student_id # 0
                            /\ \E a \in users' :
                                  /\ users' = users \cup {a}
                                  /\ a.student_id = 0
                                  /\ a.is_admin))

\* the server can be restarted after trading: a product is in stock, a user
\* holds points and a purchase is in the ledger
C20_Witness ==
    /\ started
    /\ Quiet
    /\ transactions # {}
    /\ \E p \in products : p.stock_quantity > 0
    /\ \E u \in users : u.points > 0


\* C21: the admin account's balance is 0 in every reachable state and no ledger
\* row carries an admin's id; a purchase sent with an admin session is answered
\* without a request going ahead, whatever the product.
C21_AdminBalanceZero ==
    /\ \A u \in users : u.is_admin =>
          /\ u.points = 0
          /\ \A t \in transactions : t.user_id # u.id
    /\ \A c \in Clients : (Idle(c) /\ resolve(c) # None /\ resolve(c).is_admin) =>
          \A product_id \in ProductIdInputs :
             ~ENABLED (purchase(c, product_id) /\ inflight' # inflight)

\* an admin session is idle while a product is on the shelf and the ledger has a row
C21_Witness ==
    /\ \E c \in Clients : Idle(c) /\ AdminCaller(c)
    /\ \E p \in products : p.stock_quantity > 0 /\ p.id \in ProductIdInputs
    /\ transactions # {}


\* the points field of POST /admin/update-points with a balance worth two of
\* the cheapest product
TopUpInputs == {-5, 30}

\* signups, logins, purchases and the two admin updates overlap freely; the
\* admin grants a balance from TopUpInputs
NextTopUp ==
    \/ startup_event
    \/ \E c \in Clients : SessionInvoke(c)
    \/ \E c \in Clients : PurchaseInvoke(c)
    \/ \E c \in Clients, u \in UserIdInputs, pts \in TopUpInputs :
          update_user_points(c, u, pts)
    \/ \E c \in Clients, p \in StockProductIdInputs, q \in StockInputs :
          update_product_stock(c, p, q)
    \/ \E c \in Clients : signup_commit(c)
    \/ \E c \in Clients : purchase_commit(c)
    \/ \E c \in Clients : update_user_points_commit(c)
    \/ \E c \in Clients : update_product_stock_commit(c)

SpecTopUp == Init /\ [][NextTopUp]_vars

\* C22: points and stock rise only through admin action, so a purchase comes
\* after the admin's updates. In every step: a user row that appears has 0
\* points and a product row that appears has 0 stock; a user's points rise only
\* in the commit of an update-points request for that user, to the value the
\* request carries, and a product's stock rises only in the commit of an
\* update-stock request for that product; a purchase goes ahead only having
\* read stock above 0 and points of at least the product's cost; and a ledger
\* row appears only in the commit of such a purchase.
C22_OnlyAdminRaises ==
    [][/\ \A u \in users' :
             /\ (\A v \in users : v.id # u.id) => u.points = 0
             /\ \A v \in users : (v.id = u.id /\ u.points > v.points) =>
                   \E c \in Clients :
                      /\ inflight[c].op = "update_user_points"
                      /\ inflight'[c] = NoReq
                      /\ inflight[c].user.id = u.id
                      /\ inflight[c].points = u.points
       /\ \A p \in products' :
             /\ (\A q \in products : q.id # p.id) => p.stock_quantity = 0
             /\ \A q \in products : (q.id = p.id /\ p.stock_quantity > q.stock_quantity) =>
                   \E c \in Clients :
                      /\ inflight[c].op = "update_product_stock"
                      /\ inflight'[c] = NoReq
                      /\ inflight[c].product.id = p.id
                      /\ inflight[c].stock_quantity = p.stock_quantity
       /\ \A c \in Clients :
             (inflight[c] = NoReq /\ inflight'[c] # NoReq /\ inflight'[c].op = "purchase") =>
                /\ inflight'[c].user \in users
                /\ inflight'[c].product \in products
                /\ inflight'[c].product.stock_quantity > 0
                /\ inflight'[c].user.points >= inflight'[c].product.cost_points
       /\ transactions' \ transactions # {} =>
             \E c \in Clients :
                /\ inflight[c].op = "purchase"
                /\ inflight'[c] = NoReq
                /\ \E t \in transactions' \ transactions :
                      /\ transactions' = transactions \cup {t}
                      /\ t.user_id = inflight[c].user.id
                      /\ t.item_name = inflight[c].product.name
    ]_vars

====
